---- MODULE Spec2Model ----
(***************************************************************************)
(* A model of powerdns/utils.py: the record validators (clean,             *)
(* clean_content_field, force_case, validate_for_conflicts), validate_soa, *)
(* the reverse-pointer computation and find_domain_for_record.             *)
(*                                                                         *)
(* A Python str is a sequence of one-character strings, so that split,     *)
(* join, lower, upper, slicing and the regular expressions are computed    *)
(* character by character, as the code computes them.                      *)
(***************************************************************************)
EXTENDS Integers, Sequences, FiniteSets, TLC

VARIABLES
    store,      \* Record.objects: the set of persisted record rows
    last,       \* the last request handled against the store and how it ended
    self,       \* the RecordLike instance a clean call works on
    given,      \* that instance as it was handed to clean
    exc,        \* what the last call raised (NoError when it returned)
    pc,         \* position of the single call of the function specifications
    reqs,       \* the concurrent requests: their instance and their position
    raced,      \* some request was persisted after the store changed under it
    arg,        \* the argument of a pure function call
    ret,        \* its return value
    domains     \* Domain.objects: the set of registered domain rows

vars == <<store, last, self, given, exc, pc, reqs, raced, arg, ret, domains>>

-----------------------------------------------------------------------------
(* Bounds of the model.                                                    *)

MaxRecords == 2
MaxCleanRows == 2
MaxOctets == 4
MaxTokens == 8
MaxNameLen == 3
MaxDomains == 2

-----------------------------------------------------------------------------
(* Python values.                                                          *)

\* None, as the value of an unset primary key: a pk is <<>> or <<id>>.
None == <<>>

NoError == [raised |-> FALSE, msg |-> "", ids |-> {}]

ValidationError(message, conflicting) ==
    [raised |-> TRUE, msg |-> message, ids |-> conflicting]

\* The ASCII letters, lower and upper case aligned by position.
LowerLetters ==
    << "a", "b", "c", "d", "e", "f", "g", "h", "i", "j", "k", "l", "m",
       "n", "o", "p", "q", "r", "s", "t", "u", "v", "w", "x", "y", "z" >>

UpperLetters ==
    << "A", "B", "C", "D", "E", "F", "G", "H", "I", "J", "K", "L", "M",
       "N", "O", "P", "Q", "R", "S", "T", "U", "V", "W", "X", "Y", "Z" >>

DigitChars == << "0", "1", "2", "3", "4", "5", "6", "7", "8", "9" >>

Range(s) == { s[i] : i \in DOMAIN s }

IsLower(c) == c \in Range(LowerLetters)
IsUpper(c) == c \in Range(UpperLetters)
IsDigit(c) == c \in Range(DigitChars)
IsAlnum(c) == IsLower(c) \/ IsUpper(c) \/ IsDigit(c)

IndexIn(c, s) == CHOOSE i \in DOMAIN s : s[i] = c

\* str.lower() and str.upper()
lower(s) ==
    [ i \in DOMAIN s |->
        IF IsUpper(s[i]) THEN LowerLetters[IndexIn(s[i], UpperLetters)] ELSE s[i] ]

upper(s) ==
    [ i \in DOMAIN s |->
        IF IsLower(s[i]) THEN UpperLetters[IndexIn(s[i], LowerLetters)] ELSE s[i] ]

\* s[::-1]
Reverse(s) == [ i \in 1..Len(s) |-> s[Len(s) + 1 - i] ]

\* s[i:] counted from 0 as Python does
From(s, i) == SubSeq(s, i + 1, Len(s))

\* str.split(sep) for a one-character separator: the pieces between the
\* separators, empty pieces kept, always at least one piece.
RECURSIVE SplitOn(_, _)
SplitOn(s, sep) ==
    IF \A i \in DOMAIN s : s[i] # sep
    THEN << s >>
    ELSE LET k == CHOOSE i \in DOMAIN s :
                      s[i] = sep /\ \A j \in 1..(i - 1) : s[j] # sep
         IN  << SubSeq(s, 1, k - 1) >> \o SplitOn(SubSeq(s, k + 1, Len(s)), sep)

\* sep.join(parts)
RECURSIVE Join(_, _)
Join(parts, sep) ==
    IF Len(parts) = 0 THEN << >>
    ELSE IF Len(parts) = 1 THEN parts[1]
    ELSE parts[1] \o sep \o Join(Tail(parts), sep)

-----------------------------------------------------------------------------
(* The validators: validate_domain_name, validate_dn_optional_dot and      *)
(* validate_time are RegexValidators, which raise when regex.search finds  *)
(* no match; validate_ipv4_address and validate_ipv6_address are django's. *)

\* The pattern's closing $ also matches just before one final newline: the
\* texts the pattern's body may span for the pattern to match s.
DollarForms(s) ==
    { s } \cup ( IF Len(s) > 0 /\ s[Len(s)] = "\n"
                 THEN { SubSeq(s, 1, Len(s) - 1) }
                 ELSE {} )

\* (\*\.)?([_A-Za-z0-9-]+\.)*([A-Za-z0-9])+
DomainNameBody(s) ==
    LET rest   == IF Len(s) >= 2 /\ s[1] = "*" /\ s[2] = "." THEN From(s, 2) ELSE s
        labels == SplitOn(rest, ".")
        n      == Len(labels)
    IN  /\ \A i \in 1..n : Len(labels[i]) > 0
        /\ \A i \in 1..(n - 1) : \A j \in DOMAIN labels[i] :
               IsAlnum(labels[i][j]) \/ labels[i][j] \in {"_", "-"}
        /\ \A j \in DOMAIN labels[n] : IsAlnum(labels[n][j])

\* [A-Za-z0-9.-]*
OptionalDotBody(s) == \A i \in DOMAIN s : IsAlnum(s[i]) \/ s[i] \in {".", "-"}

\* [0-9]+
TimeBody(s) == Len(s) > 0 /\ \A i \in DOMAIN s : IsDigit(s[i])

EnterValidValue == ValidationError("Enter a valid value.", {})

validate_domain_name(value) ==
    IF \E f \in DollarForms(value) : DomainNameBody(f) THEN NoError ELSE EnterValidValue

validate_dn_optional_dot(value) ==
    IF \E f \in DollarForms(value) : OptionalDotBody(f) THEN NoError ELSE EnterValidValue

validate_time(value) ==
    IF \E f \in DollarForms(value) : TimeBody(f) THEN NoError ELSE EnterValidValue

DigitVal(c) == IndexIn(c, DigitChars) - 1

RECURSIVE DecimalValue(_)
DecimalValue(s) ==
    IF Len(s) = 0 THEN 0
    ELSE 10 * DecimalValue(SubSeq(s, 1, Len(s) - 1)) + DigitVal(s[Len(s)])

\* django's ipv4_re: four groups of (25[0-5]|2[0-4]\d|[0-1]?\d?\d), that is
\* one to three digits of value at most 255
IsIPv4Octet(o) ==
    /\ Len(o) \in 1..3
    /\ \A i \in DOMAIN o : IsDigit(o[i])
    /\ DecimalValue(o) <= 255

IsValidIPv4(s) ==
    LET parts == SplitOn(s, ".")
    IN  Len(parts) = 4 /\ \A i \in 1..4 : IsIPv4Octet(parts[i])

validate_ipv4_address(value) ==
    IF IsValidIPv4(value) THEN NoError
    ELSE ValidationError("Enter a valid IPv4 address.", {})

IsHexChar(c) ==
    IsDigit(c) \/ c \in {"a", "b", "c", "d", "e", "f", "A", "B", "C", "D", "E", "F"}

IsHextet(h) == Len(h) \in 1..4 /\ \A i \in DOMAIN h : IsHexChar(h[i])

\* The eight hextets of an IPv6 address in text form, << >> when the text is
\* no address: the colon-separated parts, one "::" standing for the missing
\* zero groups.  (The dotted-quad tail and the zone suffix are not modelled;
\* no input of the model has them.)
IPv6Hextets(s) ==
    LET parts == SplitOn(s, ":")
        n     == Len(parts)
        skips == { i \in 2..(n - 1) : parts[i] = << >> }
    IN  IF n < 3 \/ n > 9 \/ Cardinality(skips) > 1 THEN << >>
        ELSE IF skips # {}
        THEN LET k  == CHOOSE i \in skips : TRUE
                 hi == IF parts[1] = << >> THEN k - 2 ELSE k - 1
                 lo == IF parts[n] = << >> THEN n - k - 1 ELSE n - k
                 skipped == 8 - (hi + lo)
             IN  IF \/ parts[1] = << >> /\ hi # 0
                    \/ parts[n] = << >> /\ lo # 0
                    \/ skipped < 1
                 THEN << >>
                 ELSE LET hs == SubSeq(parts, 1, hi)
                                 \o [ i \in 1..skipped |-> << "0" >> ]
                                 \o SubSeq(parts, n - lo + 1, n)
                      IN  IF \A i \in 1..8 : IsHextet(hs[i]) THEN hs ELSE << >>
        ELSE IF n # 8 \/ parts[1] = << >> \/ parts[n] = << >> THEN << >>
        ELSE IF \A i \in 1..8 : IsHextet(parts[i]) THEN parts ELSE << >>

IsValidIPv6(s) == IPv6Hextets(s) # << >>

validate_ipv6_address(value) ==
    IF IsValidIPv6(value) THEN NoError
    ELSE ValidationError("Enter a valid IPv6 address.", {})

\* validate_name_equal_to_content with its comparison lost
validate_name_equal_to_content_never(name, content) == NoError

validate_name_equal_to_content(name, content) ==
    IF name = content
    THEN ValidationError("Cannot create record with the same name and content", {})
    ELSE NoError

\* str.split(): the maximal runs of non-whitespace characters
Whitespace == {" ", "\t", "\n", "\r"}

RECURSIVE SplitWhitespace(_)
SplitWhitespace(s) ==
    IF \A i \in DOMAIN s : s[i] \in Whitespace THEN << >>
    ELSE LET b == CHOOSE i \in DOMAIN s :
                      s[i] \notin Whitespace /\ \A j \in 1..(i - 1) : s[j] \in Whitespace
             e == CHOOSE i \in b..Len(s) :
                      /\ \A j \in b..i : s[j] \notin Whitespace
                      /\ i = Len(s) \/ s[i + 1] \in Whitespace
         IN  << SubSeq(s, b, e) >> \o SplitWhitespace(SubSeq(s, e + 1, Len(s)))

Min(S) == CHOOSE m \in S : \A o \in S : m <= o

SOAFieldError(field) ==
    ValidationError("Incorrect " \o field \o ". Should be a valid domain name.", {})

\* validate_soa with the loop over the numeric fields run first
validate_soa_times_first(value) ==
    LET tokens == SplitWhitespace(value)
    IN  IF Len(tokens) # 7 THEN ValidationError("Enter a valid SOA record", {})
        ELSE LET names == << << tokens[1], "Domain name" >>,
                             << tokens[2], "e-mail" >> >>
                 times == << << tokens[3], "Serial" >>,
                             << tokens[4], "Refresh rate" >>,
                             << tokens[5], "Retry rate" >>,
                             << tokens[6], "Expiry time" >>,
                             << tokens[7], "Negative resp. time" >> >>
                 badNames == { i \in DOMAIN names :
                                   validate_dn_optional_dot(names[i][1]).raised }
                 badTimes == { i \in DOMAIN times :
                                   validate_time(times[i][1]).raised }
             IN  IF badTimes # {} THEN SOAFieldError(times[Min(badTimes)][2])
                 ELSE IF badNames # {} THEN SOAFieldError(names[Min(badNames)][2])
                 ELSE NoError

validate_soa(value) ==
    LET tokens == SplitWhitespace(value)
    IN  IF Len(tokens) # 7 THEN ValidationError("Enter a valid SOA record", {})
        ELSE LET names == << << tokens[1], "Domain name" >>,
                             << tokens[2], "e-mail" >> >>
                 times == << << tokens[3], "Serial" >>,
                             << tokens[4], "Refresh rate" >>,
                             << tokens[5], "Retry rate" >>,
                             << tokens[6], "Expiry time" >>,
                             << tokens[7], "Negative resp. time" >> >>
                 badNames == { i \in DOMAIN names :
                                   validate_dn_optional_dot(names[i][1]).raised }
                 badTimes == { i \in DOMAIN times :
                                   validate_time(times[i][1]).raised }
             IN  IF badNames # {} THEN SOAFieldError(names[Min(badNames)][2])
                 ELSE IF badTimes # {} THEN SOAFieldError(times[Min(badTimes)][2])
                 ELSE NoError

-----------------------------------------------------------------------------
(* RecordLike.  An instance is [pk, name, type, content]; a row of the     *)
(* store is [id, name, type, content].                                     *)

TypeA     == << "A" >>
TypeAAAA  == << "A", "A", "A", "A" >>
TypeSOA   == << "S", "O", "A" >>
TypeCNAME == << "C", "N", "A", "M", "E" >>
TypeMX    == << "M", "X" >>
TypeNAPTR == << "N", "A", "P", "T", "R" >>
TypeNS    == << "N", "S" >>
TypePTR   == << "P", "T", "R" >>

DOMAIN_NAME_RECORDS == << TypeCNAME, TypeMX, TypeNAPTR, TypeNS, TypePTR >>

get_field(this, name) == this[name]

set_field(this, name, value) == [this EXCEPT ![name] = value]

\* The identifier of the persisted record an instance stands for, None for
\* an instance not persisted yet.
get_record_pk(this) == this.pk

clean_content_field(this) ==
    LET type_   == get_field(this, "type")
        content == get_field(this, "content")
    IN  IF type_ = TypeA THEN validate_ipv4_address(content)
        ELSE IF type_ = TypeAAAA THEN validate_ipv6_address(content)
        ELSE IF type_ = TypeSOA THEN validate_soa(content)
        ELSE IF type_ \in Range(DOMAIN_NAME_RECORDS)
        THEN LET v == validate_domain_name(content)
             IN  IF v.raised THEN v
                 ELSE validate_name_equal_to_content(get_field(this, "name"), content)
        ELSE NoError

force_case(this) ==
    LET named == IF get_field(this, "name") # << >>
                 THEN set_field(this, "name", lower(get_field(this, "name")))
                 ELSE this
    IN  IF get_field(named, "type") # << >>
        THEN set_field(named, "type", upper(get_field(named, "type")))
        ELSE named

\* check_unique without the exclusion of the instance's own row
check_unique_keeps_self(this, comment, filtered) ==
    IF filtered # {}
    THEN ValidationError(comment, { r.id : r \in filtered })
    ELSE NoError

\* check_unique: filtered is Record.objects.filter(**kwargs)
check_unique(this, comment, filtered) ==
    LET record_pk   == get_record_pk(this)
        conflicting == IF record_pk # None
                       THEN { r \in filtered : << r.id >> # record_pk }
                       ELSE filtered
    IN  IF conflicting # {}
        THEN ValidationError(comment, { r.id : r \in conflicting })
        ELSE NoError

\* validate_for_conflicts with the check of the non-CNAME branch lost
validate_for_conflicts_cname_only(this, objects) ==
    IF get_field(this, "type") = TypeCNAME
    THEN check_unique(this,
             "Cannot create CNAME record. Following conflicting records exist: {}",
             { r \in objects : r.name = get_field(this, "name") })
    ELSE NoError

validate_for_conflicts(this, objects) ==
    IF get_field(this, "type") = TypeCNAME
    THEN check_unique(this,
             "Cannot create CNAME record. Following conflicting records exist: {}",
             { r \in objects : r.name = get_field(this, "name") })
    ELSE check_unique(this,
             "Cannot create a record. Following conflicting CNAMErecord exists: {}",
             { r \in objects : r.type = TypeCNAME /\ r.name = get_field(this, "name") })

\* clean with force_case moved in front of clean_content_field
clean_case_first(this, objects) ==
    LET cased == force_case(this)
        c     == clean_content_field(cased)
    IN  IF c.raised THEN [self |-> cased, exc |-> c]
        ELSE [self |-> cased, exc |-> validate_for_conflicts(cased, objects)]

\* clean without its call of validate_for_conflicts
clean_without_conflict_check(this, objects) ==
    LET c == clean_content_field(this)
    IN  IF c.raised THEN [self |-> this, exc |-> c]
        ELSE [self |-> force_case(this), exc |-> NoError]

\* clean: the instance as the call leaves it, and what the call raised
clean(this, objects) ==
    LET c == clean_content_field(this)
    IN  IF c.raised THEN [self |-> this, exc |-> c]
        ELSE LET cased == force_case(this)
             IN  [self |-> cased, exc |-> validate_for_conflicts(cased, objects)]

-----------------------------------------------------------------------------
(* The values requests are drawn from.                                     *)

NameX   == << "x" >>
NameUpX == << "X" >>
NameY   == << "y" >>
Addr4   == << "1", ".", "1", ".", "1", ".", "1" >>
Addr6   == << ":", ":", "1" >>
Dotted  == << "x", "." >>
SoaText == << "a", " ", "a", " ", "1", " ", "1", " ", "1", " ", "1", " ", "1" >>
TypeLowCname == << "c", "n", "a", "m", "e" >>
TypeLowA     == << "a" >>
TypeTXT      == << "T", "X", "T" >>

Instance(pk, name, type, content) ==
    [pk |-> pk, name |-> name, type |-> type, content |-> content]

\* The row Model.save writes for an instance under identifier id
Row(id, this) ==
    [id |-> id, name |-> this.name, type |-> this.type, content |-> this.content]

Ids(objects) == { r.id : r \in objects }

NoInstance == Instance(None, << >>, << >>, << >>)
NoLast     == [op |-> "none", raised |-> FALSE]

-----------------------------------------------------------------------------
(* Spec: the record store under requests handled one at a time.  A create  *)
(* or an update runs clean on the instance and saves it only when clean    *)
(* raised nothing; validation and save are one step.                       *)

ReqNames    == { NameUpX, NameY }
ReqTypes    == { TypeCNAME, TypeLowCname, TypeA, TypeMX, TypeTXT }
ReqContents == { NameX, Addr4 }

Init ==
    /\ store = {}
    /\ last = NoLast
    /\ self = NoInstance
    /\ given = NoInstance
    /\ exc = NoError
    /\ pc = "idle"
    /\ reqs = << >>
    /\ raced = FALSE
    /\ arg = << >>
    /\ ret = << >>
    /\ domains = {}

Create(name, type, content) ==
    /\ Cardinality(store) < MaxRecords
    /\ LET r == clean(Instance(None, name, type, content), store)
       IN  /\ last' = [op |-> "create", raised |-> r.exc.raised]
           /\ IF r.exc.raised
              THEN store' = store
              ELSE \E id \in (1..MaxRecords) \ Ids(store) :
                       store' = store \cup { Row(id, r.self) }
    /\ UNCHANGED << self, given, exc, pc, reqs, raced, arg, ret, domains >>

Update(id, name, type, content) ==
    /\ id \in Ids(store)
    /\ LET r == clean(Instance(<< id >>, name, type, content), store)
       IN  /\ last' = [op |-> "update", raised |-> r.exc.raised]
           /\ IF r.exc.raised
              THEN store' = store
              ELSE store' = { o \in store : o.id # id } \cup { Row(id, r.self) }
    /\ UNCHANGED << self, given, exc, pc, reqs, raced, arg, ret, domains >>

Delete(id) ==
    /\ id \in Ids(store)
    /\ store' = { o \in store : o.id # id }
    /\ last' = [op |-> "delete", raised |-> FALSE]
    /\ UNCHANGED << self, given, exc, pc, reqs, raced, arg, ret, domains >>

Next ==
    \/ \E n \in ReqNames, t \in ReqTypes, c \in ReqContents : Create(n, t, c)
    \/ \E i \in 1..MaxRecords, n \in ReqNames, t \in ReqTypes, c \in ReqContents :
           Update(i, n, t, c)
    \/ \E i \in 1..MaxRecords : Delete(i)

Spec == Init /\ [][Next]_vars

-----------------------------------------------------------------------------
(* SpecClean: one call of clean, of clean_content_field alone or of        *)
(* validate_for_conflicts alone, on an instance and a store drawn from     *)
(* bounded sets.  Rows may be written without validation (Model.save does  *)
(* not call clean), so the store is any set of rows with distinct ids.     *)

CleanNames    == { NameX, NameUpX, Dotted }
CleanTypes    == { TypeCNAME, TypeLowCname, TypeA, TypeLowA, TypeAAAA, TypeSOA,
                   TypeMX, TypeNAPTR, TypeNS, TypePTR, TypeTXT, << >> }
CleanContents == { NameX, Dotted, Addr4, Addr6, SoaText }

CleanRows ==
    { [id |-> i, name |-> n, type |-> t, content |-> Addr4] :
          i \in 1..MaxCleanRows, n \in { NameX, NameY }, t \in { TypeCNAME, TypeA } }

CleanStores ==
    { s \in SUBSET CleanRows : \A a, b \in s : a.id = b.id => a = b }

InitClean ==
    /\ store \in CleanStores
    /\ \E k \in { None } \cup { << i >> : i \in 1..MaxCleanRows },
          n \in CleanNames, t \in CleanTypes, c \in CleanContents :
           self = Instance(k, n, t, c)
    /\ given = self
    /\ last = NoLast
    /\ exc = NoError
    /\ pc = "call"
    /\ reqs = << >>
    /\ raced = FALSE
    /\ arg = << >>
    /\ ret = << >>
    /\ domains = {}

CallClean ==
    /\ pc = "call"
    /\ LET r == clean(self, store)
       IN  self' = r.self /\ exc' = r.exc
    /\ pc' = "clean"
    /\ UNCHANGED << store, last, given, reqs, raced, arg, ret, domains >>

CallCleanContentField ==
    /\ pc = "call"
    /\ exc' = clean_content_field(self)
    /\ pc' = "clean_content_field"
    /\ UNCHANGED << store, last, self, given, reqs, raced, arg, ret, domains >>

CallValidateForConflicts ==
    /\ pc = "call"
    /\ exc' = validate_for_conflicts(self, store)
    /\ pc' = "validate_for_conflicts"
    /\ UNCHANGED << store, last, self, given, reqs, raced, arg, ret, domains >>

NextClean == CallClean \/ CallCleanContentField \/ CallValidateForConflicts

SpecClean == InitClean /\ [][NextClean]_vars

-----------------------------------------------------------------------------
(* Properties of the record validators.                                    *)

IsDomainNameType(type) == type \in Range(DOMAIN_NAME_RECORDS)

\* No name holds a CNAME together with any other row.
CnameExclusive(objects) ==
    \A a, b \in objects :
        a.type = TypeCNAME /\ a.name = b.name => a = b

\* C1: validate_for_conflicts fails exactly when (a) the instance is a CNAME
\* and the store holds a row of the same name, of any type, with another
\* identifier, or (b) it is no CNAME and the store holds a CNAME row of the
\* same name with another identifier; an instance without identifier has no
\* row excluded.
C1_ConflictExactly ==
    pc = "validate_for_conflicts" =>
        ( exc.raised <=>
            IF self.type = TypeCNAME
            THEN \E r \in store : r.name = self.name /\ << r.id >> # self.pk
            ELSE \E r \in store :
                     r.type = TypeCNAME /\ r.name = self.name /\ << r.id >> # self.pk )

\* A persisted CNAME, the only row at its name, is validated again and passes.
C1_Witness ==
    /\ pc = "validate_for_conflicts"
    /\ ~exc.raised
    /\ self.type = TypeCNAME
    /\ \E r \in store : << r.id >> = self.pk /\ r.type = TypeCNAME /\ r.name = self.name
    /\ \E r \in store : << r.id >> # self.pk

\* C2: from the empty store, under creations, updates and deletions that
\* validate and save in one step, no name ever holds a CNAME row together
\* with another row.
C2_CnameExclusive == CnameExclusive(store)

\* An update went through on a store that holds a CNAME and another row.
C2_Witness ==
    /\ last.op = "update"
    /\ ~last.raised
    /\ \E a, b \in store : a.type = TypeCNAME /\ a.id # b.id

\* The checks of clean run on the instance normalized beforehand
ChecksOnNormalized(this, objects) ==
    LET cased == force_case(this)
        c     == clean_content_field(cased)
    IN  IF c.raised THEN c ELSE validate_for_conflicts(cased, objects)

\* C3: clean ends as the content check and the conflict check end on the
\* instance with its name lower-cased and its type upper-cased.
C3_ChecksSeeNormalized ==
    pc = "clean" => exc = ChecksOnNormalized(given, store)

\* C4: an instance of type CNAME, MX, NAPTR, NS or PTR whose name equals its
\* content fails validation whatever the store holds; for a type outside
\* these five and A, AAAA, SOA the content check raises nothing.
C4_NameEqualsContentFails ==
    /\ ( /\ pc \in { "clean", "clean_content_field" }
         /\ IsDomainNameType(given.type)
         /\ given.name = given.content )
       => ( exc.raised /\ exc.ids = {} /\ self = given )
    /\ ( /\ pc = "clean_content_field"
         /\ ~IsDomainNameType(given.type)
         /\ given.type \notin { TypeA, TypeAAAA, TypeSOA } )
       => ~exc.raised

\* clean refused an NS instance whose name is its content, a valid domain
\* name, on a store that holds no row of that name.
C4_Witness ==
    /\ pc = "clean"
    /\ given.type = TypeNS
    /\ given.name = NameX /\ given.content = NameX
    /\ exc.raised
    /\ \A r \in store : r.name # NameX

IsConflict(e) == e.raised /\ e.ids # {}

\* C9 as stated: when clean raises, the instance is as it was before the call
\* and the store is unchanged.
C9_NothingRetained ==
    [][ (pc = "call" /\ pc' = "clean" /\ exc'.raised)
            => (self' = self /\ store' = store) ]_vars

\* C9 amended: when clean raises, the store and the content are unchanged;
\* name and type are unchanged when the content check raised, and are the
\* lower-cased name and the upper-cased type when the conflict check raised.
C9_Amended ==
    [][ (pc = "call" /\ pc' = "clean" /\ exc'.raised)
            => /\ store' = store
               /\ self'.content = self.content
               /\ self'.pk = self.pk
               /\ IF IsConflict(exc')
                  THEN /\ self'.name = lower(self.name)
                       /\ self'.type = upper(self.type)
                  ELSE self' = self ]_vars

\* clean raised a conflict and left the instance with another name and type
\* than it was given.
C9_Witness ==
    /\ pc = "clean"
    /\ IsConflict(exc)
    /\ self.name # given.name
    /\ self.type # given.type

\* C10: no row of type CNAME, MX, NAPTR, NS or PTR saved after a successful
\* clean has a name equal to its content.
C10_NoNameEqualsContent ==
    \A r \in store : IsDomainNameType(r.type) => r.name # r.content

-----------------------------------------------------------------------------
(* SpecRace: two requests that create a record, each validated by clean    *)
(* against the store and saved in a later step.  clean takes no lock and   *)
(* opens no transaction, so other requests run between the two steps.      *)

Procs == { 1, 2 }

RaceNames == { NameX, NameY }
RaceTypes == { TypeCNAME, TypeA }

IdleRequest == [pc |-> "idle", self |-> NoInstance, stale |-> FALSE]

Validated(rs) == { p \in Procs : rs[p].pc = "validated" }

InitRace ==
    /\ store = {}
    /\ reqs = [p \in Procs |-> IdleRequest]
    /\ raced = FALSE
    /\ last = NoLast
    /\ self = NoInstance
    /\ given = NoInstance
    /\ exc = NoError
    /\ pc = "idle"
    /\ arg = << >>
    /\ ret = << >>
    /\ domains = {}

\* Request p runs clean on a new instance; it goes on to save when clean
\* raised nothing and is over otherwise.
Validate(p, name, type) ==
    /\ reqs[p].pc = "idle"
    /\ Cardinality(store) + Cardinality(Validated(reqs)) < MaxRecords
    /\ LET r == clean(Instance(None, name, type, Addr4), store)
       IN  /\ last' = [op |-> "validate", raised |-> r.exc.raised]
           /\ reqs' = IF r.exc.raised THEN reqs
                      ELSE [reqs EXCEPT ![p] =
                               [pc |-> "validated", self |-> r.self, stale |-> FALSE]]
    /\ UNCHANGED << store, raced, self, given, exc, pc, arg, ret, domains >>

\* Request p saves the instance it validated; every other request that has
\* validated and not yet saved now holds a check of a store that is gone.
Persist(p) ==
    /\ reqs[p].pc = "validated"
    /\ \E id \in (1..MaxRecords) \ Ids(store) :
           store' = store \cup { Row(id, reqs[p].self) }
    /\ raced' = (raced \/ reqs[p].stale)
    /\ reqs' = [q \in Procs |->
                   IF q = p THEN IdleRequest
                   ELSE IF reqs[q].pc = "validated"
                        THEN [reqs[q] EXCEPT !.stale = TRUE]
                        ELSE reqs[q]]
    /\ last' = [op |-> "persist", raised |-> FALSE]
    /\ UNCHANGED << self, given, exc, pc, arg, ret, domains >>

NextRace ==
    \/ \E p \in Procs, n \in RaceNames, t \in RaceTypes : Validate(p, n, t)
    \/ \E p \in Procs : Persist(p)

SpecRace == InitRace /\ [][NextRace]_vars

\* C8: validation and save are two steps, so both conflict checks of two
\* requests for one name can pass before either row is saved, and a store
\* where a name holds a CNAME and another row is reached; it is reached in
\* no other way: a store that breaks the exclusivity has had a row saved
\* after the store changed under that row's check.
C8_BrokenOnlyByRace == ~CnameExclusive(store) => raced

\* Two rows of one name, one of them a CNAME, both validated against the
\* empty store and then saved.
C8_Witness ==
    /\ raced
    /\ \E a, b \in store :
           /\ a.id # b.id
           /\ a.name = b.name
           /\ a.type = TypeCNAME
           /\ b.type = TypeA

-----------------------------------------------------------------------------
(* The reverse mapping: to_reverse, reverse_pointer, _reverse_ip.          *)

ValueError == [raised |-> TRUE, value |-> << >>]

Returned(v) == [raised |-> FALSE, value |-> v]

\* str(n) for a natural number
RECURSIVE DecimalString(_)
DecimalString(n) ==
    IF n < 10 THEN << DigitChars[n + 1] >>
    ELSE DecimalString(n \div 10) \o << DigitChars[(n % 10) + 1] >>

\* An octet as ipaddress.IPv4Address reads it: decimal digits only, at most
\* three, no leading zero, at most 255
IsStrictOctet(o) ==
    /\ Len(o) \in 1..3
    /\ \A i \in DOMAIN o : IsDigit(o[i])
    /\ Len(o) > 1 => o[1] # "0"
    /\ DecimalValue(o) <= 255

\* ipaddress.ip_address: the IPv4 reading is tried first, then the IPv6 one
ip_address(ip) ==
    LET octets == SplitOn(ip, ".")
    IN  IF Len(octets) = 4 /\ \A i \in 1..4 : IsStrictOctet(octets[i])
        THEN [version |-> 4, groups |-> [ i \in 1..4 |-> DecimalValue(octets[i]) ]]
        ELSE IF IsValidIPv6(ip)
        THEN [version |-> 6, groups |-> IPv6Hextets(ip)]
        ELSE [version |-> 0, groups |-> << >>]

\* str(ip_obj) of an IPv4Address
IPv4Text(ip_obj) ==
    Join([ i \in 1..4 |-> DecimalString(ip_obj.groups[i]) ], << "." >>)

\* '%04x' of a hextet
PadHextet(h) == [ i \in 1..(4 - Len(h)) |-> "0" ] \o lower(h)

\* ip_obj.exploded of an IPv6Address
exploded(ip_obj) ==
    Join([ i \in 1..8 |-> PadHextet(ip_obj.groups[i]) ], << ":" >>)

\* s.replace(':', '')
RemoveColons(s) == Join(SplitOn(s, ":"), << >>)

in_addr_arpa == << "i", "n", "-", "a", "d", "d", "r", ".", "a", "r", "p", "a" >>
ip6_arpa     == << "i", "p", "6", ".", "a", "r", "p", "a" >>

\* _reverse_ip with the reversal of the octets lost
reverse_ip_unreversed(ip) ==
    LET ip_obj == ip_address(ip)
    IN  IF ip_obj.version = 0 THEN ValueError
        ELSE IF ip_obj.version = 6
        THEN LET digits == RemoveColons(Reverse(exploded(ip_obj)))
             IN  Returned(<< << Head(digits) >>,
                             Join([ i \in 1..(Len(digits) - 1) |-> << digits[i + 1] >> ]
                                      \o << ip6_arpa >>, << "." >>) >>)
        ELSE LET parts == SplitOn(IPv4Text(ip_obj), ".")
             IN  Returned(<< Head(parts),
                             Join(Tail(parts) \o << in_addr_arpa >>, << "." >>) >>)

_reverse_ip(ip) ==
    LET ip_obj == ip_address(ip)
    IN  IF ip_obj.version = 0 THEN ValueError
        ELSE IF ip_obj.version = 6
        THEN LET digits == RemoveColons(Reverse(exploded(ip_obj)))
             IN  Returned(<< << Head(digits) >>,
                             Join([ i \in 1..(Len(digits) - 1) |-> << digits[i + 1] >> ]
                                      \o << ip6_arpa >>, << "." >>) >>)
        ELSE LET parts == Reverse(SplitOn(IPv4Text(ip_obj), "."))
             IN  Returned(<< Head(parts),
                             Join(Tail(parts) \o << in_addr_arpa >>, << "." >>) >>)

to_reverse(ip) == _reverse_ip(ip)

reverse_pointer(ip) ==
    LET r == _reverse_ip(ip)
    IN  IF r.raised THEN r ELSE Returned(Join(r.value, << "." >>))

-----------------------------------------------------------------------------
(* SpecIP: one call of to_reverse or of reverse_pointer on a text drawn    *)
(* from bounded sets: up to MaxOctets dot-separated groups, and IPv6 texts.*)

OctetTexts ==
    { << "1" >>, << "2" >>, << "1", "6", "8" >>, << "1", "9", "2" >>,
      << "2", "5", "6" >>, << "a" >> }

RECURSIVE SeqsOf(_, _)
SeqsOf(S, n) ==
    IF n = 0 THEN { << >> }
    ELSE { << x >> \o s : x \in S, s \in SeqsOf(S, n - 1) }

DottedTexts ==
    UNION { { Join(s, << "." >>) : s \in SeqsOf(OctetTexts, n) } : n \in 1..MaxOctets }

DocAddr6 == << "2", "0", "0", "1", ":", "0", "d", "b", "8", ":", "0", ":", "0", ":", ":", "1", "4", "2", "8", ":", "5", "7", "a", "b" >>

ColonTexts ==
    { Addr6, DocAddr6, << "1", ":", ":" >>, << ":", ":" >>, << "1", ":", "2" >>,
      << ":", ":", ":" >>, << "1", ":", ":", "2", ":", ":", "3" >>,
      << "1", ":", "2", ":", "3", ":", "4", ":", "5", ":", "6", ":", "7", ":", "F" >> }

InitIP ==
    /\ arg \in DottedTexts \cup ColonTexts
    /\ ret = << >>
    /\ pc = "call"
    /\ store = {}
    /\ last = NoLast
    /\ self = NoInstance
    /\ given = NoInstance
    /\ exc = NoError
    /\ reqs = << >>
    /\ raced = FALSE
    /\ domains = {}

CallToReverse ==
    /\ pc = "call"
    /\ ret' = to_reverse(arg)
    /\ pc' = "to_reverse"
    /\ UNCHANGED << store, last, self, given, exc, reqs, raced, arg, domains >>

CallReversePointer ==
    /\ pc = "call"
    /\ ret' = reverse_pointer(arg)
    /\ pc' = "reverse_pointer"
    /\ UNCHANGED << store, last, self, given, exc, reqs, raced, arg, domains >>

NextIP == CallToReverse \/ CallReversePointer

SpecIP == InitIP /\ [][NextIP]_vars

Addr192 == << "1", "9", "2", ".", "1", "6", "8", ".", "1", ".", "2" >>

DocExample6 ==
    arg = DocAddr6 /\ pc = "reverse_pointer" =>
        ret = Returned(<< "b", ".", "a", ".", "7", ".", "5", ".", "8", ".", "2", ".", "4", ".", "1", ".", "0", ".", "0", ".", "0", ".", "0", ".", "0", ".", "0", ".", "0", ".", "0", ".", "0", ".", "0", ".", "0", ".", "0", ".", "0", ".", "0", ".", "0", ".", "0", ".", "8", ".", "b", ".", "d", ".", "0", ".", "1", ".", "0", ".", "0", ".", "2", ".", "i", "p", "6", ".", "a", "r", "p", "a" >>)

-----------------------------------------------------------------------------
(* SpecSOA: one call of validate_soa on a text of up to MaxTokens tokens,  *)
(* separated and possibly surrounded by whitespace.                        *)

SoaTokens == { << "a", "." >>, << "1" >>, << "!" >> }

\* How the tokens are laid out: single blanks, or a tab and a blank between
\* the tokens and a blank before and after them
SoaLayouts ==
    { [sep |-> << " " >>, pad |-> << >>],
      [sep |-> << "\t", " " >>, pad |-> << " " >>] }

SoaTexts ==
    UNION { { l.pad \o Join(s, l.sep) \o l.pad :
                  s \in SeqsOf(SoaTokens, n), l \in SoaLayouts } : n \in 0..MaxTokens }

InitSOA ==
    /\ arg \in SoaTexts
    /\ exc = NoError
    /\ pc = "call"
    /\ ret = << >>
    /\ store = {}
    /\ last = NoLast
    /\ self = NoInstance
    /\ given = NoInstance
    /\ reqs = << >>
    /\ raced = FALSE
    /\ domains = {}

CallValidateSoa ==
    /\ pc = "call"
    /\ exc' = validate_soa(arg)
    /\ pc' = "validate_soa"
    /\ UNCHANGED << store, last, self, given, reqs, raced, arg, ret, domains >>

NextSOA == CallValidateSoa

SpecSOA == InitSOA /\ [][NextSOA]_vars

\* The whitespace-separated tokens of a text, told from the text itself: a
\* token starts at a non-blank character that is first or follows a blank,
\* and runs up to the next blank.
TokenStarts(s) ==
    { i \in DOMAIN s : s[i] \notin Whitespace /\ (i = 1 \/ s[i - 1] \in Whitespace) }

TokenFrom(s, b) ==
    SubSeq(s, b,
           CHOOSE e \in b..Len(s) :
               /\ \A j \in b..e : s[j] \notin Whitespace
               /\ e = Len(s) \/ s[e + 1] \in Whitespace)

TokensOf(s) ==
    [ k \in 1..Cardinality(TokenStarts(s)) |->
        TokenFrom(s, CHOOSE b \in TokenStarts(s) :
                         Cardinality({ o \in TokenStarts(s) : o < b }) = k - 1) ]

SoaFieldNames ==
    << "Domain name", "e-mail", "Serial", "Refresh rate", "Retry rate",
       "Expiry time", "Negative resp. time" >>

SoaFieldOk(k, token) == IF k <= 2 THEN OptionalDotBody(token) ELSE TimeBody(token)

\* C7: validate_soa succeeds exactly on a text of exactly 7 tokens whose
\* first two match the optionally-dotted-name grammar and whose last five
\* are digits only; any other token count raises the generic SOA error;
\* otherwise the error names the first field, in the order name, email,
\* serial, refresh, retry, expiry, nx-ttl, that fails.
C7_ValidateSoa ==
    pc = "validate_soa" =>
        LET toks == TokensOf(arg)
            bad  == { k \in 1..7 : k <= Len(toks) /\ ~SoaFieldOk(k, toks[k]) }
        IN  /\ ~exc.raised <=> (Len(toks) = 7 /\ bad = {})
            /\ Len(toks) # 7 =>
                   exc = ValidationError("Enter a valid SOA record", {})
            /\ (Len(toks) = 7 /\ bad # {}) =>
                   exc = ValidationError(
                             "Incorrect " \o SoaFieldNames[Min(bad)]
                                 \o ". Should be a valid domain name.", {})

\* Seven tokens with a wrong e-mail and a wrong refresh rate: the error
\* names the e-mail.
C7_Witness ==
    /\ pc = "validate_soa"
    /\ Len(TokensOf(arg)) = 7
    /\ ~OptionalDotBody(TokensOf(arg)[2])
    /\ ~TimeBody(TokensOf(arg)[4])
    /\ OptionalDotBody(TokensOf(arg)[1])
    /\ exc.msg = "Incorrect e-mail. Should be a valid domain name."

-----------------------------------------------------------------------------
(* find_domain_for_record.  A Domain row is [id, name]; the order in which *)
(* a query returns its rows is not fixed by the code, so a query result is *)
(* any ordering of the rows that match.                                    *)

\* The orderings of a finite set of rows
Orderings(S) ==
    { q \in [1..Cardinality(S) -> S] : \A i, j \in DOMAIN q : q[i] = q[j] => i = j }

Max(S) == CHOOSE m \in S : \A o \in S : o <= m

\* sorted(q, key=lambda domain: len(domain.name), reverse=True): a stable
\* sort, rows of equal length keep the order of q
RECURSIVE SortedByLenDesc(_)
SortedByLenDesc(q) ==
    IF Len(q) = 0 THEN << >>
    ELSE LET longest == Max({ Len(q[i].name) : i \in DOMAIN q })
             k == Min({ i \in DOMAIN q : Len(q[i].name) = longest })
         IN  << q[k] >>
                 \o SortedByLenDesc(SubSeq(q, 1, k - 1) \o SubSeq(q, k + 1, Len(q)))

search_partial_domains(record_name) ==
    LET chunks == SplitOn(record_name, ".")
    IN  [ i \in 1..Len(chunks) |-> Join(From(chunks, i - 1), << "." >>) ]

\* Domain.objects.filter(name__in=names)
FilterNameIn(objects, names) == { d \in objects : d.name \in Range(names) }

\* find_domain_for_record with reverse=True lost from the sort
find_domain_shortest_first(matching_domains) ==
    LET ordered == Reverse(SortedByLenDesc(matching_domains))
    IN  IF Len(ordered) > 0 THEN << ordered[1] >> ELSE None

\* The rest of find_domain_for_record, from the rows the query returned: a
\* row as << row >>, no row as None
find_domain_for_record(matching_domains) ==
    LET ordered == SortedByLenDesc(matching_domains)
    IN  IF Len(ordered) > 0 THEN << ordered[1] >> ELSE None

-----------------------------------------------------------------------------
(* SpecDomain: one call of find_domain_for_record on a name of up to       *)
(* MaxNameLen characters and up to MaxDomains registered domains, and on   *)
(* the reverse zones of the docstring.                                     *)

NameChars == { "a", "b", "." }

RecordNames == UNION { SeqsOf(NameChars, n) : n \in 0..MaxNameLen }

DomainNames ==
    { << "a" >>, << "b" >>, << "b", ".", "a" >>, << ".", "a" >>, << "a", "." >>, << >> }

DomainSets ==
    { s \in SUBSET { [id |-> i, name |-> n] : i \in 1..MaxDomains, n \in DomainNames } :
          \A d, e \in s : d.id = e.id => d = e }

Zone10     == << "1", "0", ".", "i", "n", "-", "a", "d", "d", "r", ".", "a", "r", "p", "a" >>
Zone2010   == << "2", "0", ".", "1", "0", ".", "i", "n", "-", "a", "d", "d", "r", ".", "a", "r", "p", "a" >>
Name302010 == << "3", "0", ".", "2", "0", ".", "1", "0", ".", "i", "n", "-", "a", "d", "d", "r", ".", "a", "r", "p", "a" >>

InitDomain ==
    /\ \/ arg \in RecordNames /\ domains \in DomainSets
       \/ /\ arg \in { Name302010, Zone10 }
          /\ domains \in SUBSET { [id |-> 1, name |-> Zone10],
                                  [id |-> 2, name |-> Zone2010] }
    /\ given = domains
    /\ ret = << >>
    /\ pc = "call"
    /\ store = {}
    /\ last = NoLast
    /\ self = NoInstance
    /\ exc = NoError
    /\ reqs = << >>
    /\ raced = FALSE

CallFindDomain ==
    /\ pc = "call"
    /\ \E q \in Orderings(FilterNameIn(domains, search_partial_domains(arg))) :
           ret' = find_domain_for_record(q)
    /\ pc' = "find_domain_for_record"
    /\ UNCHANGED << store, last, self, given, exc, reqs, raced, arg, domains >>

NextDomain == CallFindDomain

SpecDomain == InitDomain /\ [][NextDomain]_vars

\* The suffixes of a name left by dropping leading labels, told from the
\* name itself: the name, and what follows each of its dots.
SuffixCandidates(name) ==
    { name } \cup { From(name, i) : i \in { j \in DOMAIN name : name[j] = "." } }

\* C6: the candidates are the name and its suffixes after each leading
\* label; with no registered domain named like a candidate the result is
\* none; otherwise it is a registered domain named like a candidate and no
\* shorter than any other such domain; the registered domains are as before.
C6_LongestMatch ==
    pc = "find_domain_for_record" =>
        LET matches == { d \in domains : d.name \in SuffixCandidates(arg) }
        IN  /\ Range(search_partial_domains(arg)) = SuffixCandidates(arg)
            /\ matches = {} => ret = None
            /\ matches # {} =>
                   /\ ret # None
                   /\ ret[1] \in matches
                   /\ \A d \in matches : Len(ret[1].name) >= Len(d.name)
            /\ domains = given
            /\ arg = Name302010 /\ domains = { [id |-> 1, name |-> Zone10],
                                              [id |-> 2, name |-> Zone2010] }
                   => ret = << [id |-> 2, name |-> Zone2010] >>

\* A name with two registered containing zones resolved to the longer one.
C6_Witness ==
    /\ pc = "find_domain_for_record"
    /\ ret # None
    /\ \E d \in domains :
           /\ d.name \in SuffixCandidates(arg)
           /\ Len(d.name) < Len(ret[1].name)

\* A name with no registered containing zone resolved to none.
NoZoneFound ==
    /\ pc = "find_domain_for_record"
    /\ domains # {}
    /\ ret = None

====
